---- MODULE Spec2Model ----
(***************************************************************************)
(* A model of the parsing core of exfor_client.py:                         *)
(*   _parse_c5m_metadata      (metadata lines with '#+' continuation),     *)
(*   _parse_c5m_covariance    (COVARDATA block -> corr, sigma, cov),       *)
(*   download_dataset_csv     (per-field conversion of the CSV rows),      *)
(*   extract_xy_from_csv_rows (column resolution and series extraction).   *)
(*                                                                         *)
(* Strings are sequences of one-character strings.  A Python float is a    *)
(* binary floating-point number m * 2^e whose mantissa has Prec bits,      *)
(* rounded to nearest, ties to even, as IEEE 754 arithmetic does; the      *)
(* exponent is unbounded and there are no infinities or NaN.               *)
(***************************************************************************)
EXTENDS Integers, Sequences, FiniteSets, TLC

VARIABLES
    call,           \* which function this behaviour is a call of
    pc,             \* position inside the called function
    \* _parse_c5m_covariance
    lines, i0, i1, data_rows, corr, ci, sigma, cov, cov_result,
    \* _parse_c5m_metadata
    mleft, ln, meta, current_key, before,
    \* download_dataset_csv / extract_xy_from_csv_rows
    raw_rows, rows, ek, vk, dk, xi, E, Y, DY, xy_result

cov_vars  == <<lines, i0, i1, data_rows, corr, ci, sigma, cov, cov_result>>
meta_vars == <<mleft, ln, meta, current_key, before>>
xy_vars   == <<raw_rows, rows, ek, vk, dk, xi, E, Y, DY, xy_result>>
vars      == <<call, pc, cov_vars, meta_vars, xy_vars>>

(***************************************************************************)
(* Bounds of the model.                                                    *)
(***************************************************************************)
\* Bits of a float's mantissa (a Python float has 53).
Prec == 8
\* Lines of a C5M text handed to _parse_c5m_covariance.
MaxCovLines == 4
\* Lines of a C5M text handed to _parse_c5m_metadata.
MaxMetaLines == 4
\* Rows handed to extract_xy_from_csv_rows.
MaxRows == 2

(***************************************************************************)
(* Strings.                                                                *)
(***************************************************************************)
\* str.startswith
StartsWith(s, p) == Len(s) >= Len(p) /\ SubSeq(s, 1, Len(p)) = p

(***************************************************************************)
(* Floats.                                                                 *)
(***************************************************************************)
RECURSIVE Pow2(_)
Pow2(k) == IF k <= 0 THEN 1 ELSE 2 * Pow2(k - 1)

RECURSIVE Pow10(_)
Pow10(k) == IF k <= 0 THEN 1 ELSE 10 * Pow10(k - 1)

RECURSIVE BitLen(_)
BitLen(n) == IF n <= 0 THEN 0 ELSE 1 + BitLen(n \div 2)

Abs(n) == IF n < 0 THEN -n ELSE n
Sgn(n) == IF n < 0 THEN -1 ELSE 1
Max(a, b) == IF a >= b THEN a ELSE b

\* The float m * 2^e in its one canonical form: m odd, or m = 0 and e = 0.
RECURSIVE Canon(_, _)
Canon(m, e) ==
    IF m = 0 THEN [m |-> 0, e |-> 0]
    ELSE IF m % 2 = 0 THEN Canon(m \div 2, e + 1)
    ELSE [m |-> m, e |-> e]

\* The float nearest to n/d (n >= 0, d > 0), ties to even.
RoundRatio(n, d) ==
    IF n = 0 THEN Canon(0, 0)
    ELSE LET k    == Max(0, Prec + 1 + BitLen(d) - BitLen(n))
             Q    == (n * Pow2(k)) \div d
             R    == (n * Pow2(k)) % d
             s    == BitLen(Q) - Prec
             q    == Q \div Pow2(s)
             r    == Q % Pow2(s)
             half == Pow2(s - 1)
             up   == r > half \/ (r = half /\ (R > 0 \/ q % 2 = 1))
         IN  Canon(IF up THEN q + 1 ELSE q, s - k)

Scale(f, e, sg) == IF f.m = 0 THEN f ELSE [m |-> sg * f.m, e |-> f.e + e]

\* a * b
FMul(a, b) == Scale(RoundRatio(Abs(a.m * b.m), 1), a.e + b.e, Sgn(a.m * b.m))

\* a / b, b nonzero
FDiv(a, b) == Scale(RoundRatio(Abs(a.m), Abs(b.m)), a.e - b.e, Sgn(a.m) * Sgn(b.m))

\* The float literal n/d of the source or of a claim (100.0 is Lit(100, 1)).
Lit(n, d) == RoundRatio(n, d)

DigitVal == [c \in {"0", "1", "2", "3", "4", "5", "6", "7", "8", "9"} |->
               CASE c = "0" -> 0 [] c = "1" -> 1 [] c = "2" -> 2 [] c = "3" -> 3
                 [] c = "4" -> 4 [] c = "5" -> 5 [] c = "6" -> 6 [] c = "7" -> 7
                 [] c = "8" -> 8 [] c = "9" -> 9]

RECURSIVE DecNat(_)
DecNat(s) == IF s = <<>> THEN 0
             ELSE 10 * DecNat(SubSeq(s, 1, Len(s) - 1)) + DigitVal[s[Len(s)]]

\* float(s) of an unsigned decimal numeral, digits with at most one '.':
\* [ok |-> TRUE, val |-> the float], or [ok |-> FALSE] where float() raises
\* ValueError.  Every other string the model uses is one float() rejects.
ParseFloat(s) ==
    LET dots   == {k \in DOMAIN s : s[k] = "."}
        digits == SelectSeq(s, LAMBDA c : c # ".")
    IN  IF /\ Cardinality(dots) <= 1
           /\ digits # <<>>
           /\ \A k \in DOMAIN digits : digits[k] \in DOMAIN DigitVal
        THEN LET frac == IF dots = {} THEN 0
                         ELSE Len(s) - (CHOOSE k \in dots : TRUE)
             IN  [ok |-> TRUE, val |-> RoundRatio(DecNat(digits), Pow10(frac))]
        ELSE [ok |-> FALSE]

(***************************************************************************)
(* _parse_c5m_covariance.                                                  *)
(*                                                                         *)
(* A line of the text is [lead, toks]: whether it begins with whitespace,  *)
(* and its whitespace-separated tokens in order (what ln.strip().split()   *)
(* returns).  The code reads a line only through startswith, strip and     *)
(* split, so the lengths of the whitespace runs do not matter to it.       *)
(***************************************************************************)
Line(lead, toks) == [lead |-> lead, toks |-> toks]

\* ln.startswith(p), for a prefix p that holds no whitespace
LineStartsWith(l, p) == ~l.lead /\ l.toks # <<>> /\ StartsWith(l.toks[1], p)

\* not ln.strip()
LineBlank(l) == l.toks = <<>>

COVARDATA     == <<"#", "C", "O", "V", "A", "R", "D", "A", "T", "A">>
END_COVARDATA == <<"#", "/", "C", "O", "V", "A", "R", "D", "A", "T", "A">>
HASH          == <<"#">>

IsStart(l) == LineStartsWith(l, COVARDATA)
IsEnd(l)   == LineStartsWith(l, END_COVARDATA)

\* The texts the model hands to the function: every sequence of at most
\* MaxCovLines of these lines.
t_0   == <<"0">>
t_1   == <<"1">>
t_2   == <<"2">>
t_3   == <<"3">>
t_7   == <<"7">>
t_30  == <<"3", "0">>
t_70  == <<"7", "0">>
t_100 == <<"1", "0", "0">>
t_x   == <<"x">>
CovLines ==
    { Line(FALSE, <<COVARDATA>>),
      Line(FALSE, <<END_COVARDATA>>),
      Line(TRUE,  <<END_COVARDATA>>),                    \* indented: no marker
      Line(FALSE, <<HASH, t_x>>),                        \* a comment line
      Line(FALSE, <<>>),                                 \* a blank line
      Line(FALSE, <<t_0, t_1, t_30, t_3, t_100>>),
      Line(FALSE, <<t_1, t_2, t_30, t_7, t_70, t_100>>),
      Line(TRUE,  <<t_1, t_2, t_30, t_7, t_x, t_70>>),   \* one junk token
      Line(FALSE, <<<<"0", ".", "0">>, <<"1", ".", "0">>, <<"1", "0", ".", "0">>,
                    <<"5", ".", "0">>, t_100>>),
      Line(FALSE, <<<<"1", ".", "0">>, <<"2", ".", "0">>, <<"2", "0", ".", "0">>,
                    <<"8", ".", "0">>, <<"5", "0">>, t_100>>),
      Line(FALSE, <<t_0, t_x, t_30, t_3, t_100>>),       \* E_max does not parse
      Line(FALSE, <<t_0, t_1, t_30>>) }                  \* fewer than 4 tokens

\* The sequences of at most n elements of S
SeqsUpTo(S, n) == UNION {[1..k -> S] : k \in 0..n}

CovTexts == SeqsUpTo(CovLines, MaxCovLines)

\* i0 / i1 before a marker line was seen (None in the source)
NoIndex == -1

\* The marker scan, from line i (0-based) on, with its break at the first
\* end marker.
RECURSIVE LocateFrom(_, _, _)
LocateFrom(text, i, a) ==
    IF i >= Len(text) THEN [i0 |-> a, i1 |-> NoIndex]
    ELSE LET l  == text[i + 1]
             a2 == IF IsStart(l) THEN i ELSE a
         IN  IF IsEnd(l) THEN [i0 |-> a2, i1 |-> i]
             ELSE LocateFrom(text, i + 1, a2)

Locate(text) == LocateFrom(text, 0, NoIndex)

NotFound(loc) == loc.i0 = NoIndex \/ loc.i1 = NoIndex \/ loc.i1 <= loc.i0

\* The tokens after the fourth that float() accepts, in order.
RECURSIVE CorrVals(_)
CorrVals(toks) ==
    IF toks = <<>> THEN <<>>
    ELSE LET f == ParseFloat(Head(toks))
         IN  IF f.ok THEN <<f.val>> \o CorrVals(Tail(toks))
             ELSE CorrVals(Tail(toks))

\* One line between the markers: [ok |-> FALSE] when it is skipped, else the
\* data row.
ParseRow(l) ==
    IF LineBlank(l) \/ LineStartsWith(l, HASH) THEN [ok |-> FALSE]
    ELSE IF Len(l.toks) < 4 THEN [ok |-> FALSE]
    ELSE IF \E k \in 1..4 : ~ParseFloat(l.toks[k]).ok THEN [ok |-> FALSE]
    ELSE [ok |-> TRUE,
          row |-> [E_min     |-> ParseFloat(l.toks[1]).val,
                   E_max     |-> ParseFloat(l.toks[2]).val,
                   y         |-> ParseFloat(l.toks[3]).val,
                   std_pct   |-> ParseFloat(l.toks[4]).val,
                   corr_list |-> CorrVals(SubSeq(l.toks, 5, Len(l.toks)))]]

\* data_rows of lines[a+1:b] (a, b 0-based as in the source)
RECURSIVE ParseRows(_, _, _)
ParseRows(text, a, b) ==
    IF a + 1 >= b THEN <<>>
    ELSE LET r == ParseRow(text[a + 2])
         IN  (IF r.ok THEN <<r.row>> ELSE <<>>) \o ParseRows(text, a + 1, b)

\* line 582: no data row was accepted
NoRowsNever(n) == FALSE

NoRows(n) == n = 0

\* corr as first built: 0.0 everywhere, 1.0 on the diagonal
InitCorr(n) ==
    [a \in 0..(n - 1) |-> [b \in 0..(n - 1) |->
        IF a = b THEN Lit(1, 1) ELSE Lit(0, 1)]]

\* line 594, negated: position jj is written for row i
InRangeAlways(i, jj) == TRUE

InRange(i, jj) == ~(jj < 0 \/ jj > i)

\* The inner loop over one token of row i: position j (0-based), value v.
FillOneOneSided(c, i, j, v) ==
    IF ~InRange(i, j) THEN c
    ELSE [c EXCEPT ![i][j] = FDiv(v, Lit(100, 1))]

FillOne(c, i, j, v) ==
    IF ~InRange(i, j) THEN c
    ELSE LET rho == FDiv(v, Lit(100, 1))
             c1  == [c EXCEPT ![i][j] = rho]
         IN  [c1 EXCEPT ![j][i] = rho]

\* Whether a write of row i indexes corr outside its n rows (IndexError).
FillRaises(n, i, vals) ==
    \E j \in 0..(Len(vals) - 1) : InRange(i, j) /\ (j >= n \/ i >= n)

RECURSIVE FillFrom(_, _, _, _)
FillFrom(c, i, vals, j) ==
    IF j >= Len(vals) THEN c
    ELSE FillFrom(FillOne(c, i, j, vals[j + 1]), i, vals, j + 1)

FillRow(c, i, vals) == FillFrom(c, i, vals, 0)

SigmaOf(drows) ==
    [a \in 0..(Len(drows) - 1) |->
        FMul(FDiv(drows[a + 1].std_pct, Lit(100, 1)), drows[a + 1].y)]

CovEntry(c, sg, a, b) == FMul(FMul(c[a][b], sg[a]), sg[b])

CovOf(c, sg, n) ==
    [a \in 0..(n - 1) |-> [b \in 0..(n - 1) |-> CovEntry(c, sg, a, b)]]

\* The empty result, {}
EmptyResult == [empty |-> TRUE]

\* The call ended in an exception no handler caught.
Raised(what) == [raised |-> what]

CovResult(drows, sg, c, cv) ==
    [empty   |-> FALSE,
     E_min   |-> [a \in 0..(Len(drows) - 1) |-> drows[a + 1].E_min],
     E_max   |-> [a \in 0..(Len(drows) - 1) |-> drows[a + 1].E_max],
     data    |-> [a \in 0..(Len(drows) - 1) |-> drows[a + 1].y],
     std_pct |-> [a \in 0..(Len(drows) - 1) |-> drows[a + 1].std_pct],
     sigma   |-> sg,
     corr    |-> c,
     cov     |-> cv]

\* A variable not yet assigned
Unset == [unset |-> TRUE]

CovIdle ==
    /\ lines = <<>> /\ i0 = NoIndex /\ i1 = NoIndex /\ data_rows = <<>>
    /\ corr = Unset /\ ci = 0 /\ sigma = Unset /\ cov = Unset
    /\ cov_result = Unset

MetaIdle ==
    /\ mleft = 0 /\ ln = <<>> /\ meta = <<>> /\ current_key = <<>>
    /\ before = Unset

XYIdle ==
    /\ raw_rows = <<>> /\ rows = <<>> /\ ek = <<>> /\ vk = <<>> /\ dk = <<>> /\ xi = 0
    /\ E = <<>> /\ Y = <<>> /\ DY = <<>> /\ xy_result = Unset

InitCov ==
    /\ call = "_parse_c5m_covariance"
    /\ pc = "locate"
    /\ lines \in CovTexts
    /\ i0 = NoIndex /\ i1 = NoIndex /\ data_rows = <<>>
    /\ corr = Unset /\ ci = 0 /\ sigma = Unset /\ cov = Unset
    /\ cov_result = Unset
    /\ MetaIdle /\ XYIdle

\* lines 539-550: find the block, or return {}
CovLocate ==
    /\ call = "_parse_c5m_covariance" /\ pc = "locate"
    /\ LET loc == Locate(lines)
       IN  /\ i0' = loc.i0
           /\ i1' = loc.i1
           /\ IF NotFound(loc)
              THEN pc' = "done" /\ cov_result' = EmptyResult
              ELSE pc' = "rows" /\ cov_result' = cov_result
    /\ UNCHANGED <<call, lines, data_rows, corr, ci, sigma, cov, meta_vars, xy_vars>>

\* lines 551-588: the data rows, {} if there are none, else the first corr
CovRows ==
    /\ call = "_parse_c5m_covariance" /\ pc = "rows"
    /\ LET drows == ParseRows(lines, i0, i1)
       IN  /\ data_rows' = drows
           /\ IF NoRows(Len(drows))
              THEN pc' = "done" /\ cov_result' = EmptyResult /\ corr' = corr
              ELSE pc' = "fill" /\ cov_result' = cov_result
                   /\ corr' = InitCorr(Len(drows))
    /\ ci' = 0
    /\ UNCHANGED <<call, lines, i0, i1, sigma, cov, meta_vars, xy_vars>>

\* lines 589-598: one iteration of the loop over data_rows
CovFill ==
    /\ call = "_parse_c5m_covariance" /\ pc = "fill"
    /\ ci < Len(data_rows)
    /\ IF FillRaises(Len(data_rows), ci, data_rows[ci + 1].corr_list)
       THEN /\ pc' = "done"
            /\ cov_result' = Raised("IndexError")
            /\ UNCHANGED <<corr, ci>>
       ELSE /\ corr' = FillRow(corr, ci, data_rows[ci + 1].corr_list)
            /\ ci' = ci + 1
            /\ UNCHANGED <<pc, cov_result>>
    /\ UNCHANGED <<call, lines, i0, i1, data_rows, sigma, cov, meta_vars, xy_vars>>

\* lines 599-616: sigma, cov and the returned dict
CovFinish ==
    /\ call = "_parse_c5m_covariance" /\ pc = "fill"
    /\ ci = Len(data_rows)
    /\ sigma' = SigmaOf(data_rows)
    /\ cov' = CovOf(corr, sigma', Len(data_rows))
    /\ cov_result' = CovResult(data_rows, sigma', corr, cov')
    /\ pc' = "done"
    /\ UNCHANGED <<call, lines, i0, i1, data_rows, corr, ci, meta_vars, xy_vars>>

NextCov == CovLocate \/ CovRows \/ CovFill \/ CovFinish

SpecCov == InitCov /\ [][NextCov]_vars

(***************************************************************************)
(* Claims about _parse_c5m_covariance.                                     *)
(***************************************************************************)
CovReturned == call = "_parse_c5m_covariance" /\ pc = "done"
CovFull     == CovReturned /\ cov_result # EmptyResult /\ "corr" \in DOMAIN cov_result
NRows       == Len(data_rows)
Idx         == 0..(NRows - 1)
\* the correlation tokens row i (0-based) kept
ValsOf(i)   == data_rows[i + 1].corr_list

C2_SigmaCovSymmetric ==
    CovFull =>
        /\ DOMAIN cov_result.cov = Idx
        /\ \A i \in Idx : DOMAIN cov_result.cov[i] = Idx
        /\ \A i \in Idx :
              cov_result.sigma[i] =
                  FMul(FDiv(cov_result.std_pct[i], Lit(100, 1)), cov_result.data[i])
        /\ \A i, j \in Idx :
              cov_result.cov[i][j] =
                  FMul(FMul(cov_result.corr[i][j], cov_result.sigma[i]),
                       cov_result.sigma[j])
        /\ \A i, j \in Idx : cov_result.cov[i][j] = cov_result.cov[j][i]

\* "the start marker line is absent", and so on, read off the text alone
StartLines == {k \in 0..(Len(lines) - 1) : IsStart(lines[k + 1])}
EndLines   == {k \in 0..(Len(lines) - 1) : IsEnd(lines[k + 1])}
Least(S)   == CHOOSE k \in S : \A m \in S : k <= m

\* C3: the call never ends in an exception, and it returns {} when the text
\* has no start marker line, no end marker line, its first end marker is not
\* after its first start marker, or no line between the located markers is
\* accepted as a data row.
C3_NeverRaisesEmptyWhenAbsent ==
    CovReturned =>
        /\ "raised" \notin DOMAIN cov_result
        /\ ( \/ StartLines = {}
             \/ EndLines = {}
             \/ Least(EndLines) <= Least(StartLines)
             \/ ParseRows(lines, i0, i1) = <<>> ) => cov_result = EmptyResult

\* Both markers are there, in order, and every line between them is skipped.
C3_Witness ==
    /\ CovReturned /\ cov_result = EmptyResult
    /\ StartLines # {} /\ EndLines # {} /\ Least(StartLines) < Least(EndLines)
    /\ i1 > i0 + 1

\* What corr[a][b], a >= b, holds once the rows before row k are processed.
CorrExpected(a, b, k) ==
    IF a < k /\ b < Len(ValsOf(a)) THEN FDiv(ValsOf(a)[b + 1], Lit(100, 1))
    ELSE IF a = b THEN Lit(1, 1) ELSE Lit(0, 1)

\* C8: row i writes v/100 to corr[i][j] and corr[j][i] for each position
\* j <= i of its list and nothing else: after the first ci rows every entry
\* is the value its row listed for it, or its initial value (1.0 on the
\* diagonal, 0.0 off it).
C8_RowWritesOnlyLowerTriangle ==
    (call = "_parse_c5m_covariance" /\ (pc = "fill" \/ CovFull)) =>
        \A a, b \in Idx :
            corr[a][b] = IF a >= b THEN CorrExpected(a, b, ci)
                         ELSE CorrExpected(b, a, ci)

\* Row 0 lists two correlations: the one at position 1 is beyond its
\* diagonal, and corr[0][1] is still 0.0 after the row was processed.
C8_Witness ==
    /\ call = "_parse_c5m_covariance" /\ pc = "fill"
    /\ NRows = 2 /\ ci = 1
    /\ Len(ValsOf(0)) = 2
    /\ corr[0][0] = FDiv(ValsOf(0)[1], Lit(100, 1))
    /\ corr[0][1] = Lit(0, 1)

\* C9: the block is the lines strictly between the first start marker line
\* of the text and the first end marker line after it: the data rows the call
\* works on are the rows of exactly those lines.
C9_BlockIsFirstStartToNextEnd ==
    (CovReturned /\ StartLines # {}
       /\ {k \in EndLines : k > Least(StartLines)} # {}) =>
        LET a == Least(StartLines)
            b == Least({k \in EndLines : k > a})
        IN  IF ParseRows(lines, a, b) = <<>>
            THEN cov_result = EmptyResult
            ELSE cov_result # EmptyResult /\ data_rows = ParseRows(lines, a, b)

(***************************************************************************)
(* _parse_c5m_metadata.                                                    *)
(***************************************************************************)
IsSpace(c) == c = " "

RECURSIVE LStrip(_)
LStrip(s) == IF s # <<>> /\ IsSpace(Head(s)) THEN LStrip(Tail(s)) ELSE s

RECURSIVE RStrip(_)
RStrip(s) == IF s # <<>> /\ IsSpace(s[Len(s)])
             THEN RStrip(SubSeq(s, 1, Len(s) - 1)) ELSE s

\* str.strip()
Strip(s) == RStrip(LStrip(s))

\* s[n:]
From(s, n) == SubSeq(s, n + 1, Len(s))

\* The first whitespace-free run of s, which has no leading whitespace.
RECURSIVE FirstWord(_)
FirstWord(s) == IF s = <<>> \/ IsSpace(Head(s)) THEN <<>>
                ELSE <<Head(s)>> \o FirstWord(Tail(s))

\* s.split(None, 1) of a stripped, non-empty s
SplitOnce(s) ==
    LET w    == FirstWord(s)
        rest == LStrip(From(s, Len(w)))
    IN  IF rest = <<>> THEN <<w>> ELSE <<w, rest>>

keys ==
    { <<"T", "I", "T", "L", "E">>,
      <<"A", "U", "T", "H", "O", "R", "S">>,
      <<"A", "U", "T", "H", "O", "R", "1">>,
      <<"Y", "E", "A", "R">>,
      <<"R", "E", "F", "E", "R", "E", "N", "C", "E", "1">>,
      <<"X", "4", "R", "E", "F", "1">>,
      <<"I", "N", "S", "T", "I", "T", "U", "T", "E">>,
      <<"M", "E", "T", "H", "O", "D">>,
      <<"R", "E", "A", "C", "T", "I", "O", "N">>,
      <<"M", "F">>,
      <<"M", "T">>,
      <<"T", "A", "R", "G", "E", "T">>,
      <<"P", "R", "O", "J">>,
      <<"P", "R", "O", "D", "U", "C", "T">> }

\* current_key = None
NoKey == <<>>

\* The dict d with d[k] = v
Put(d, k, v) == [x \in DOMAIN d \cup {k} |-> IF x = k THEN v ELSE d[x]]

\* line 515: the value a continuation leaves
JoinedUnstripped(value, content) == value \o <<" ">> \o content

Joined(value, content) == Strip(value \o <<" ">> \o content)

\* lines 530-531: current_key after a key that is not recognized
KeyKept(k) == k

KeyAfterUnrecognized(k) == NoKey

\* One iteration of the loop over the lines (lines 510-531): the record and
\* the tracked key after line l.
MetaStep(m, k, l) ==
    IF ~StartsWith(l, <<"#">>) THEN [meta |-> m, current_key |-> k]
    ELSE IF StartsWith(l, <<"#", "+">>) /\ k # NoKey /\ k \in DOMAIN m
    THEN [meta |-> Put(m, k, Joined(m[k], Strip(From(l, 2)))), current_key |-> k]
    ELSE LET s == Strip(From(l, 1))
         IN  IF s = <<>> THEN [meta |-> m, current_key |-> k]
             ELSE LET parts == SplitOnce(s)
                      key   == Strip(parts[1])
                      val   == IF Len(parts) = 1 THEN <<>> ELSE Strip(parts[2])
                  IN  IF key \in keys
                      THEN [meta |-> Put(m, key, val), current_key |-> key]
                      ELSE [meta |-> m, current_key |-> KeyAfterUnrecognized(k)]

\* The lines the model draws each line of the text from.
MetaLines ==
    { <<"#", "T", "I", "T", "L", "E", " ", "E", "x", "a", "m", "p", "l", "e">>,
      <<"#", "+", " ", "c", "o", "n", "t", "i", "n", "u", "e", "d">>,
      <<"#", "T", "I", "T", "L", "E">>,   \* a key with no value
      <<"#", "+">>,   \* a continuation with no content
      <<"#", "+", " ", " ", "x", " ">>,
      <<"#">>,   \* the marker alone
      <<"#", " ", " ">>,   \* the marker and whitespace
      <<"#", "X", " ", "y">>,   \* a key that is not recognized
      <<"#", "T", "I", "T", "L", "E", "S", " ", "y">>,
      <<"t", "e", "x", "t">>,   \* no marker
      <<" ", "#", "M", "T", " ", "3">>,   \* the marker is not first
      <<"#", " ", " ", "M", "T", " ", " ", "2", " ">>,
      <<"#", "M", "T", " ", "1">> }

InitMeta ==
    /\ call = "_parse_c5m_metadata"
    /\ pc = "loop"
    /\ mleft \in 0..MaxMetaLines
    /\ ln = <<>> /\ meta = <<>> /\ current_key = NoKey /\ before = Unset
    /\ CovIdle /\ XYIdle

\* lines 510-531: the next line of the text is read and processed
MetaLine ==
    /\ call = "_parse_c5m_metadata" /\ pc = "loop"
    /\ mleft > 0
    /\ \E l \in MetaLines :
          /\ ln' = l
          /\ before' = [meta |-> meta, current_key |-> current_key]
          /\ meta' = MetaStep(meta, current_key, l).meta
          /\ current_key' = MetaStep(meta, current_key, l).current_key
    /\ mleft' = mleft - 1
    /\ UNCHANGED <<call, pc, cov_vars, xy_vars>>

\* line 532: the text is exhausted
MetaReturn ==
    /\ call = "_parse_c5m_metadata" /\ pc = "loop"
    /\ mleft = 0
    /\ pc' = "done"
    /\ UNCHANGED <<call, meta_vars, cov_vars, xy_vars>>

NextMeta == MetaLine \/ MetaReturn

SpecMeta == InitMeta /\ [][NextMeta]_vars

(***************************************************************************)
(* Claims about _parse_c5m_metadata.                                       *)
(***************************************************************************)
\* a line was just processed
MetaStepped == call = "_parse_c5m_metadata" /\ before # Unset
IsMarkerLine(l) == StartsWith(l, <<"#">>)
IsContinuation(l) == StartsWith(l, <<"#", "+">>)
Tracking(b) == b.current_key # NoKey /\ b.current_key \in DOMAIN b.meta
\* the line just processed was a continuation, and it was applied
AppliedContinuation == IsContinuation(ln) /\ Tracking(before)
Content(l) == Strip(From(l, 2))
TITLE == <<"T", "I", "T", "L", "E">>

\* C4 as stated: an applied continuation makes the tracked value
\* value + " " + content; a continuation with nothing tracked leaves the
\* record unchanged.
C4_ContinuationJoinsWithSpace ==
    (MetaStepped /\ IsContinuation(ln)) =>
        IF Tracking(before)
        THEN /\ meta = Put(before.meta, before.current_key,
                           before.meta[before.current_key] \o <<" ">> \o Content(ln))
             /\ current_key = before.current_key
        ELSE meta = before.meta

\* C4, amended: an applied continuation makes the tracked value
\* value + " " + content when neither is empty, the content alone when the
\* value is empty, and leaves the value as it is when the content is empty;
\* the tracked key stays, so consecutive continuations append in line order;
\* a continuation with nothing tracked leaves the record unchanged.
C4_ContinuationJoinsStripped ==
    (MetaStepped /\ IsContinuation(ln)) =>
        IF Tracking(before)
        THEN LET value == before.meta[before.current_key]
             IN  /\ meta = Put(before.meta, before.current_key,
                               IF value = <<>> THEN Content(ln)
                               ELSE IF Content(ln) = <<>> THEN value
                               ELSE value \o <<" ">> \o Content(ln))
                 /\ current_key = before.current_key
        ELSE meta = before.meta

\* '#TITLE Example' then '#+ continued' gave {"TITLE": "Example continued"}.
C4_Witness ==
    /\ MetaStepped /\ AppliedContinuation
    /\ before.meta = Put(<<>>, TITLE, <<"E", "x", "a", "m", "p", "l", "e">>)
    /\ ln = <<"#", "+", " ", "c", "o", "n", "t", "i", "n", "u", "e", "d">>
    /\ meta = Put(<<>>, TITLE, <<"E", "x", "a", "m", "p", "l", "e", " ", "c", "o", "n", "t", "i", "n", "u", "e", "d">>)

\* the line just processed is a marker line, not an applied continuation,
\* and carries no recognized key
UnrecognizedLine ==
    /\ IsMarkerLine(ln) /\ ~AppliedContinuation
    /\ LET s == Strip(From(ln, 1))
       IN  s = <<>> \/ FirstWord(s) \notin keys

\* no continuation line changes the record now
ContinuationsDropped ==
    \A l \in MetaLines :
        IsContinuation(l) => MetaStep(meta, current_key, l).meta = meta

\* C10 as stated: after every such line, a marker line with nothing after
\* the marker included, no key is tracked and a continuation that follows
\* changes nothing.
C10_ResetOnEveryUnrecognizedLine ==
    (MetaStepped /\ UnrecognizedLine) =>
        current_key = NoKey /\ ContinuationsDropped

\* C10, amended: after a marker line that is not an applied continuation and
\* whose text after the marker is not empty and starts with no recognized
\* key, no key is tracked and a continuation that follows changes nothing; a
\* marker line with nothing but whitespace after the marker is skipped and
\* leaves the tracked key and the record as they were.
C10_ResetOnUnrecognizedKey ==
    (MetaStepped /\ UnrecognizedLine) =>
        IF Strip(From(ln, 1)) = <<>>
        THEN current_key = before.current_key /\ meta = before.meta
        ELSE current_key = NoKey /\ ContinuationsDropped /\ meta = before.meta

\* A key was tracked, and a line with an unrecognized key cleared it.
C10_Witness ==
    /\ MetaStepped /\ UnrecognizedLine
    /\ Tracking(before)
    /\ Strip(From(ln, 1)) # <<>>
    /\ current_key = NoKey
    /\ meta # <<>>

(***************************************************************************)
(* download_dataset_csv (the conversion of the rows) and                   *)
(* extract_xy_from_csv_rows.                                               *)
(*                                                                         *)
(* A row is a function from its headers to cells; a cell is a float, a     *)
(* string or None.                                                         *)
(***************************************************************************)
Num(f) == [t |-> "float", f |-> f, s |-> <<>>]
Str(s) == [t |-> "str", f |-> [m |-> 0, e |-> 0], s |-> s]
NoneV  == [t |-> "None", f |-> [m |-> 0, e |-> 0], s |-> <<>>]

\* isinstance(v, (int, float))
Numeric(v) == v.t = "float"

\* str.upper / str.lower, one character
UpperChar(c) ==
    CASE c = "a" -> "A" [] c = "b" -> "B" [] c = "c" -> "C"
         [] c = "d" -> "D" [] c = "e" -> "E" [] c = "f" -> "F"
         [] c = "g" -> "G" [] c = "h" -> "H" [] c = "i" -> "I"
         [] c = "j" -> "J" [] c = "k" -> "K" [] c = "l" -> "L"
         [] c = "m" -> "M" [] c = "n" -> "N" [] c = "o" -> "O"
         [] c = "p" -> "P" [] c = "q" -> "Q" [] c = "r" -> "R"
         [] c = "s" -> "S" [] c = "t" -> "T" [] c = "u" -> "U"
         [] c = "v" -> "V" [] c = "w" -> "W" [] c = "x" -> "X"
         [] c = "y" -> "Y" [] c = "z" -> "Z"
      [] OTHER -> c

LowerChar(c) ==
    CASE c = "A" -> "a" [] c = "B" -> "b" [] c = "C" -> "c"
         [] c = "D" -> "d" [] c = "E" -> "e" [] c = "F" -> "f"
         [] c = "G" -> "g" [] c = "H" -> "h" [] c = "I" -> "i"
         [] c = "J" -> "j" [] c = "K" -> "k" [] c = "L" -> "l"
         [] c = "M" -> "m" [] c = "N" -> "n" [] c = "O" -> "o"
         [] c = "P" -> "p" [] c = "Q" -> "q" [] c = "R" -> "r"
         [] c = "S" -> "s" [] c = "T" -> "t" [] c = "U" -> "u"
         [] c = "V" -> "v" [] c = "W" -> "w" [] c = "X" -> "x"
         [] c = "Y" -> "y" [] c = "Z" -> "z"
      [] OTHER -> c

Upper(s) == [k \in DOMAIN s |-> UpperChar(s[k])]
Lower(s) == [k \in DOMAIN s |-> LowerChar(s[k])]

\* sub in s
Contains(s, sub) ==
    \E k \in 0..(Len(s) - Len(sub)) : SubSeq(s, k + 1, k + Len(sub)) = sub

\* lines 165-173: one field of a CSV row
FieldKeptAsString(v) ==
    IF v = NoneV \/ v.s = <<>> \/ Lower(v.s) = <<"n", "u", "l", "l">> THEN NoneV
    ELSE v

ConvertField(v) ==
    IF v = NoneV \/ v.s = <<>> \/ Lower(v.s) = <<"n", "u", "l", "l">> THEN NoneV
    ELSE IF ParseFloat(v.s).ok THEN Num(ParseFloat(v.s).val)
    ELSE v

\* lines 162-174: the rows as download_dataset_csv returns them
ConvertRows(rr) == [i \in DOMAIN rr |-> [k \in DOMAIN rr[i] |-> ConvertField(rr[i][k])]]

h_EN1    == <<"E", "N", " ", "(", "E", "V", ")", " ", "1", ".", "1">>
h_x2     == <<"x", "2", "(", "e", "V", ")">>
h_ENEV   == <<"E", "N", "(", "E", "V", ")">>
h_x1     == <<"x", "1", "(", "e", "V", ")">>
h_DATA1  == <<"D", "A", "T", "A", " ", "(", "B", ")", " ", "0", ".", "1">>
h_y      == <<"y">>
h_yValue == <<"y", ":", "V", "a", "l", "u", "e">>
h_DataB  == <<"D", "a", "t", "a", "(", "B", ")">>
h_DATAB  == <<"D", "A", "T", "A", "(", "B", ")">>
h_ERR1   == <<"D", "A", "T", "A", "-", "E", "R", "R", " ", "(", "B", ")", " ", "0", ".", "9", "1", "1">>
h_ERRT   == <<"E", "R", "R", "-", "T">>
h_ERRS   == <<"E", "R", "R", "-", "S">>
h_ERRSYS == <<"E", "R", "R", "-", "S", "Y", "S">>
h_dy     == <<"d", "y">>
\* headers that are on no priority list
h_En     == <<"E", "n", " ", "(", "e", "V", ")">>
h_EnRsl  == <<"E", "N", "-", "R", "S", "L", " ", "(", "E", "V", ")">>
h_Data   == <<"D", "a", "t", "a", " ", "(", "m", "b", ")">>
h_Angle  == <<"A", "n", "g", "l", "e">>
h_Yield  == <<"Y", "i", "e", "l", "d">>

energy_keys == <<h_EN1, h_x2, h_ENEV, h_x1>>
value_keys  == <<h_DATA1, h_y, h_yValue, h_DataB, h_DATAB>>
err_keys    == <<h_ERR1, h_ERRT, h_ERRS, h_ERRSYS, h_dy>>

\* ek / vk / dk = None
NoHeader == <<>>

\* set().union(*[set(r.keys()) for r in rows])
PresentKeys(rr) == UNION {DOMAIN rr[i] : i \in DOMAIN rr}

\* next((k for k in ks if k in present), None)
FirstPresent(ks, present) ==
    LET hits == {i \in DOMAIN ks : ks[i] \in present}
    IN  IF hits = {} THEN NoHeader
        ELSE ks[CHOOSE i \in hits : \A j \in hits : i <= j]

\* line 321 and line 323: the headers the fallback takes
EnergyLike(k) == StartsWith(Upper(k), <<"E", "N">>) /\ Contains(Upper(k), <<"E", "V">>)
ValueLike(k)  == StartsWith(Upper(k), <<"D", "A", "T", "A">>) \/ k = h_y

\* lines 318-324: what the fallback loop can leave in a variable that the
\* priority list left at first, cands being the headers of present_keys
\* that qualify for it.  The loop takes the first header that qualifies, and
\* a set iterates in no fixed order.
NoFallback(first, cands) == {first}

AfterFallback(first, cands) ==
    IF first # NoHeader THEN {first}
    ELSE IF cands = {} THEN {NoHeader}
    ELSE cands

\* lines 314-324: the (ek, vk) pairs the resolution can end with
Resolutions(present) ==
    LET e0 == FirstPresent(energy_keys, present)
        v0 == FirstPresent(value_keys, present)
    IN  IF e0 # NoHeader /\ v0 # NoHeader THEN {<<e0, v0>>}
        ELSE AfterFallback(e0, {k \in present : EnergyLike(k)})
                 \X AfterFallback(v0, {k \in present : ValueLike(k)})

\* r.get(k)
Get(r, k) == IF k \in DOMAIN r THEN r[k] ELSE NoneV

\* lines 333-340: the three lists after row r
RowStepDropsNoneDY(r, e, v, d, acc) ==
    IF Numeric(Get(r, e)) /\ Numeric(Get(r, v))
    THEN [E  |-> Append(acc.E, Get(r, e)),
          Y  |-> Append(acc.Y, Get(r, v)),
          DY |-> IF d # NoHeader /\ Numeric(Get(r, d))
                 THEN Append(acc.DY, Get(r, d)) ELSE acc.DY]
    ELSE acc

RowStep(r, e, v, d, acc) ==
    LET de == IF d # NoHeader THEN Get(r, d) ELSE NoneV
    IN  IF Numeric(Get(r, e)) /\ Numeric(Get(r, v))
        THEN [E  |-> Append(acc.E, Get(r, e)),
              Y  |-> Append(acc.Y, Get(r, v)),
              DY |-> Append(acc.DY, IF Numeric(de) THEN de ELSE NoneV)]
        ELSE acc

Series(e, y, dy) == [E |-> e, Y |-> y, DY |-> dy]

\* The rows of the model.
Cells == {Num(Lit(1000, 1)), Num(Lit(5, 2)), Str(<<"a", "b", "c">>)}

HeaderSets ==
    { {h_EN1, h_DATA1, h_ERR1},        \* the plus=1 convention
      {h_x2, h_y},                     \* the plus=2 convention, no dy
      {h_En, h_Data, h_ERR1},          \* both found by the fallback only
      {h_En, h_EnRsl, h_y},
      {h_En, h_ERR1},                  \* only DATA-ERR begins with DATA
      {h_EN1, h_ERRT},                 \* no value column
      {h_y, h_dy},                     \* no energy column
      {h_Angle, h_Yield} }

\* rows as csv.DictReader yields them: strings, None for a missing field
RawRows ==
    { [k \in {h_EN1, h_DATA1, h_ERR1} |->
          CASE k = h_EN1 -> Str(<<"1", "0", "0", "0">>)
            [] k = h_DATA1 -> Str(<<"2", ".", "5">>)
            [] OTHER -> Str(<<"0", ".", "1">>)],
      [k \in {h_EN1, h_DATA1, h_ERR1} |->
          CASE k = h_EN1 -> Str(<<"2", ".", "5">>)
            [] k = h_DATA1 -> Str(<<"1", "0", "0", "0">>)
            [] OTHER -> Str(<<>>)],
      [k \in {h_EN1, h_DATA1, h_ERR1} |->
          CASE k = h_EN1 -> Str(<<"1", "0", "0", "0">>)
            [] k = h_DATA1 -> Str(<<"N", "u", "l", "l">>)
            [] OTHER -> NoneV],
      [k \in {h_x2, h_y, h_dy} |->
          CASE k = h_x2 -> Str(<<"0", ".", "1">>)
            [] k = h_y -> Str(<<"2", ".", "5">>)
            [] OTHER -> Str(<<"n", "/", "a">>)] }

\* rows whose header sets differ
RaggedRows ==
    { [k \in {h_EN1} |-> Num(Lit(1000, 1))],
      [k \in {h_DATA1} |-> Num(Lit(5, 2))],
      [k \in {h_EN1, h_DATA1} |-> Num(Lit(5, 2))] }

RawTables == SeqsUpTo(RawRows, MaxRows)

DirectRowLists ==
    UNION {SeqsUpTo([hs -> Cells], MaxRows) : hs \in HeaderSets}
        \cup SeqsUpTo(RaggedRows, MaxRows)
        \cup RawTables

InitXY ==
    /\ call = "extract_xy_from_csv_rows"
    /\ \/ pc = "csv" /\ raw_rows \in RawTables /\ rows = <<>>
       \/ pc = "call" /\ raw_rows = <<>> /\ rows \in DirectRowLists
    /\ ek = <<>> /\ vk = <<>> /\ dk = <<>> /\ xi = 0
    /\ E = <<>> /\ Y = <<>> /\ DY = <<>> /\ xy_result = Unset
    /\ CovIdle /\ MetaIdle

\* download_dataset_csv, lines 159-174: the rows read from the CSV text are
\* converted, and handed to extract_xy_from_csv_rows
XYDownload ==
    /\ call = "extract_xy_from_csv_rows" /\ pc = "csv"
    /\ rows' = ConvertRows(raw_rows)
    /\ pc' = "call"
    /\ UNCHANGED <<call, raw_rows, ek, vk, dk, xi, E, Y, DY, xy_result,
                   cov_vars, meta_vars>>

\* lines 287-288: no rows
XYEmpty ==
    /\ call = "extract_xy_from_csv_rows" /\ pc = "call"
    /\ rows = <<>>
    /\ xy_result' = Series(<<>>, <<>>, <<>>)
    /\ pc' = "done"
    /\ UNCHANGED <<call, raw_rows, rows, ek, vk, dk, xi, E, Y, DY,
                   cov_vars, meta_vars>>

\* lines 290-331: the columns are resolved, or ValueError is raised
XYResolve ==
    /\ call = "extract_xy_from_csv_rows" /\ pc = "call"
    /\ rows # <<>>
    /\ \E res \in Resolutions(PresentKeys(rows)) :
          /\ ek' = res[1]
          /\ vk' = res[2]
          /\ dk' = FirstPresent(err_keys, PresentKeys(rows))
          /\ IF res[1] = NoHeader \/ res[2] = NoHeader
             THEN /\ pc' = "done"
                  /\ xy_result' = Raised([error   |-> "ValueError",
                                          headers |-> PresentKeys(rows)])
             ELSE /\ pc' = "loop"
                  /\ xy_result' = xy_result
    /\ UNCHANGED <<call, raw_rows, rows, xi, E, Y, DY, cov_vars, meta_vars>>

\* lines 332-340: one iteration of the loop over rows
XYRow ==
    /\ call = "extract_xy_from_csv_rows" /\ pc = "loop"
    /\ xi < Len(rows)
    /\ LET acc == RowStep(rows[xi + 1], ek, vk, dk, Series(E, Y, DY))
       IN  E' = acc.E /\ Y' = acc.Y /\ DY' = acc.DY
    /\ xi' = xi + 1
    /\ UNCHANGED <<call, pc, raw_rows, rows, ek, vk, dk, xy_result,
                   cov_vars, meta_vars>>

\* line 341
XYReturn ==
    /\ call = "extract_xy_from_csv_rows" /\ pc = "loop"
    /\ xi = Len(rows)
    /\ xy_result' = Series(E, Y, DY)
    /\ pc' = "done"
    /\ UNCHANGED <<call, raw_rows, rows, ek, vk, dk, xi, E, Y, DY,
                   cov_vars, meta_vars>>

NextXY == XYDownload \/ XYEmpty \/ XYResolve \/ XYRow \/ XYReturn

SpecXY == InitXY /\ [][NextXY]_vars


(***************************************************************************)
(* Claims about extract_xy_from_csv_rows.                                  *)
(***************************************************************************)
XYReturned == call = "extract_xy_from_csv_rows" /\ pc = "done"
XYRaised   == XYReturned /\ "raised" \in DOMAIN xy_result
XYSeries   == XYReturned /\ "E" \in DOMAIN xy_result

\* the rows whose resolved energy and value fields are both numeric, in order
Contributing ==
    SelectSeq([i \in 1..Len(rows) |-> i],
              LAMBDA i : Numeric(Get(rows[i], ek)) /\ Numeric(Get(rows[i], vk)))

\* C5: the three lists have one length; their k-th entries are the energy,
\* value and uncertainty of the k-th row, in input order, whose energy and
\* value fields are both numeric; the uncertainty entry is None where the
\* row's uncertainty field is missing or not numeric.
C5_SeriesAlignedWithNumericRows ==
    (XYSeries /\ rows # <<>>) =>
        /\ Len(xy_result.E) = Len(Contributing)
        /\ Len(xy_result.Y) = Len(Contributing)
        /\ Len(xy_result.DY) = Len(Contributing)
        /\ \A k \in 1..Len(Contributing) :
              LET r == rows[Contributing[k]]
              IN  /\ xy_result.E[k] = r[ek]
                  /\ xy_result.Y[k] = r[vk]
                  /\ xy_result.DY[k] =
                        IF dk # NoHeader /\ dk \in DOMAIN r /\ Numeric(r[dk])
                        THEN r[dk] ELSE NoneV

\* Of two rows the first has no numeric value and is left out; the second is
\* in, though its uncertainty field is not numeric.
C5_Witness ==
    /\ XYSeries /\ Len(rows) = 2
    /\ Contributing = <<2>>
    /\ Numeric(Get(rows[1], ek)) /\ ~Numeric(Get(rows[1], vk))
    /\ dk # NoHeader /\ ~Numeric(Get(rows[2], dk))
    /\ xy_result.DY = <<NoneV>>
    /\ xy_result.E = <<rows[2][ek]>>

EnergyFound(present) ==
    \/ \E i \in DOMAIN energy_keys : energy_keys[i] \in present
    \/ \E k \in present : EnergyLike(k)
ValueFound(present) ==
    \/ \E i \in DOMAIN value_keys : value_keys[i] \in present
    \/ \E k \in present : ValueLike(k)

\* C6: the call raises ValueError, carrying the header union, exactly when
\* rows is not empty and no header is found for the energy or for the value,
\* by the priority lists or by the fallback; an empty rows gives
\* ([], [], []).
C6_RaisesIffUnresolved ==
    XYReturned =>
        /\ XYRaised <=> ( /\ rows # <<>>
                          /\ ~( /\ EnergyFound(PresentKeys(rows))
                                /\ ValueFound(PresentKeys(rows)) ) )
        /\ XYRaised => xy_result = Raised([error   |-> "ValueError",
                                           headers |-> PresentKeys(rows)])
        /\ rows = <<>> => xy_result = Series(<<>>, <<>>, <<>>)

\* The energy header is found, no value header is, by either tier.
C6_Witness ==
    /\ XYRaised
    /\ PresentKeys(rows) = {h_EN1, h_ERRT}
    /\ ek = h_EN1 /\ vk = NoHeader
    /\ xy_result.raised.headers = {h_EN1, h_ERRT}

ExampleStrings ==
    [k \in {h_EN1, h_DATA1, h_ERR1} |->
        CASE k = h_EN1 -> Str(<<"1", "0", "0", "0">>)
          [] k = h_DATA1 -> Str(<<"2", ".", "5">>)
          [] OTHER -> Str(<<"0", ".", "1">>)]
ExampleFloats ==
    [k \in {h_EN1, h_DATA1, h_ERR1} |->
        CASE k = h_EN1 -> Num(Lit(1000, 1))
          [] k = h_DATA1 -> Num(Lit(25, 10))
          [] OTHER -> Num(Lit(1, 10))]
ExampleSeries ==
    Series(<<Num(Lit(1000, 1))>>, <<Num(Lit(25, 10))>>, <<Num(Lit(1, 10))>>)

\* C7 as stated: handed the one row whose values are the strings "1000",
\* "2.5" and "0.1", extract_xy_from_csv_rows returns E=[1000.0], Y=[2.5],
\* DY=[0.1].
C7_StringRowGivesSeries ==
    (XYReturned /\ rows = <<ExampleStrings>>) => xy_result = ExampleSeries

\* C7, amended: download_dataset_csv converts the row of strings to the
\* floats 1000.0, 2.5 and 0.1, and on the converted row
\* extract_xy_from_csv_rows returns E=[1000.0], Y=[2.5], DY=[0.1]; on the row
\* of strings itself it returns ([], [], []).
C7_ConvertedRowGivesSeries ==
    /\ (XYReturned /\ raw_rows = <<ExampleStrings>>) =>
           rows = <<ExampleFloats>> /\ xy_result = ExampleSeries
    /\ (XYReturned /\ rows = <<ExampleStrings>>) =>
           xy_result = Series(<<>>, <<>>, <<>>)

C7_Witness ==
    /\ XYReturned /\ raw_rows = <<ExampleStrings>>
    /\ ek = h_EN1 /\ vk = h_DATA1 /\ dk = h_ERR1
    /\ xy_result = ExampleSeries

\* What the call returns for rows rr once the fallback has ended with the
\* pair res of energy and value headers: lines 326-341.
RECURSIVE SeriesFrom(_, _, _, _, _, _)
SeriesFrom(rr, i, e, v, d, acc) ==
    IF i > Len(rr) THEN acc
    ELSE SeriesFrom(rr, i + 1, e, v, d, RowStep(rr[i], e, v, d, acc))

OutcomeOf(rr, res) ==
    IF res[1] = NoHeader \/ res[2] = NoHeader
    THEN Raised([error |-> "ValueError", headers |-> PresentKeys(rr)])
    ELSE SeriesFrom(rr, 1, res[1], res[2],
                    FirstPresent(err_keys, PresentKeys(rr)),
                    Series(<<>>, <<>>, <<>>))

\* C11: the call is a function of rows: the energy and value headers it
\* chose and what it returned are the ones every iteration order of the
\* header union leads to, so no two calls on the same rows differ.
C11_ResultIndependentOfIterationOrder ==
    (XYReturned /\ rows # <<>>) =>
        \A res \in Resolutions(PresentKeys(rows)) :
            /\ res = <<ek, vk>>
            /\ OutcomeOf(rows, res) = xy_result

\* C12: when the columns are resolved, the value header differs from the
\* uncertainty header and from the energy header, and so does the energy
\* header from the uncertainty header: Y and DY are never one field.
C12_ValueAndUncertaintyHeadersDiffer ==
    (XYSeries /\ rows # <<>>) =>
        /\ vk # dk
        /\ vk # ek
        /\ ek # dk

(***************************************************************************)
(* The three functions together: a behaviour is one call of one of them.   *)
(***************************************************************************)
Init == InitCov \/ InitMeta \/ InitXY

Next == NextCov \/ NextMeta \/ NextXY

Spec == Init /\ [][Next]_vars

====
